---- MODULE Spec2Model ----
(***************************************************************************)
(* Model of the MIDI monitor in src/midi/src/main.rs: the MidiHandler      *)
(* (message classification, 24-ppqn clock aggregation, delta-time prefix,  *)
(* token formatting, history) and the input callbacks of main that share   *)
(* one handler behind a mutex.                                             *)
(*                                                                         *)
(* An Option<String> is modelled as a sequence of length 0 (None) or 1     *)
(* (Some(s)); a &[u8] as a sequence of naturals below 256; a String as a   *)
(* TLA+ string.  clock_counter and delta_clock_counter are u32 in the      *)
(* source; the model never drives them near 2^32.                          *)
(***************************************************************************)
EXTENDS Integers, Sequences, FiniteSets, TLC

VARIABLES
    clock_counter,        \* MidiHandler.clock_counter
    delta_clock_counter,  \* MidiHandler.delta_clock_counter
    history,              \* MidiHandler.history
    message,              \* argument of the latest handle_message call
    result,               \* value returned by the latest handle_message call
    branch,               \* branch of the if/else chain the latest call took
    panicked,             \* TRUE once a call indexed its message out of bounds
    clocks_fed,           \* number of [0xF8] calls so far
    only_clocks,          \* TRUE while every call so far was [0xF8]
    since_start,          \* [0xF8] calls since the latest [0xFA] (-1: not tracked)
    since_note,           \* [0xF8] calls since the latest returned note token
    since_mark,           \* [0xF8] calls since the latest returned note or "Q " token
    no_start,             \* TRUE while no [0xFA] has been handled
    returned,             \* every token returned so far, in order
    pc,                   \* per source: where its callback thread stands
    arg,                  \* per source: the message its callback was invoked with
    reply,                \* per source: the value handle_message returned to it
    handler_lock,         \* holder of the handler's mutex, or "free"
    out_buffer,           \* tokens printed to stdout and not yet flushed
    out_stream,           \* tokens flushed to the terminal
    delivered,            \* number of callbacks the driver has invoked since the warm-up
    got,                  \* per source: the tokens returned to its callbacks
    own,                  \* per source: a handler fed that source's messages only
    serial,               \* a handler fed every message whose call has ended, in that order
    main_pc,              \* where the main thread stands
    in_ports,             \* names of the MIDI input ports the driver enumerates
    out_ports,            \* names of the MIDI output ports the driver enumerates
    output_name,          \* value of --output=, "" when the argument is absent
    clock_name,           \* value of --clock=, "" when the argument is absent
    todo,                 \* port_names still to be visited by the connect loop
    connections,          \* the Vec of monitored input connections, by port name
    sender,               \* the MidiSender behind Arc<Mutex<..>>
    sender_strong,        \* strong count of the sender's Arc (0: destroyed)
    sender_lock,          \* holder of the sender's mutex, or "free"
    clock_local,          \* the clock connection while main holds it in `conn`
    clock_pc,             \* where the clock connection's callback thread stands
    clock_arg,            \* the message the clock callback was invoked with
    hooked,               \* handle_clock calls made by the current clock callback
    established,          \* every connection that was ever established
    closed,               \* every connection that has been closed
    refused,              \* the clients, connections and reads the system refused
    failed,               \* TRUE once main returned an error
    dropped_by,           \* the thread that destroyed the MidiSender, "none" before
    handled_from          \* ports whose messages reached handle_message

handler_vars == <<clock_counter, delta_clock_counter, history>>
call_vars    == <<message, result, branch, panicked>>
ghost_vars   == <<clocks_fed, only_clocks, since_start, since_note, since_mark, no_start, returned>>
thread_vars  == <<pc, arg, reply, handler_lock, out_buffer, out_stream, delivered>>
source_vars  == <<got, own, serial>>
main_vars    == <<main_pc, in_ports, out_ports, output_name, clock_name, todo,
                 connections, sender, sender_strong, sender_lock, clock_local,
                 clock_pc, clock_arg, hooked, established, closed, refused,
                 failed, dropped_by, handled_from>>
vars         == <<handler_vars, call_vars, ghost_vars, thread_vars, source_vars,
                 main_vars>>

----------------------------------------------------------------------------
(* Bounds *)

MaxHistory == 2     \* tokens kept in history before appending calls are cut off
MaxBurst   == 3     \* [0xF8] calls in a run that feeds every message shape
MaxClocks  == 25    \* [0xF8] calls in a run that feeds clocks, Starts and notes
MaxLen     == 3     \* longest message whose classification is enumerated
MaxDeliveries == 3  \* callbacks the driver invokes in a concurrent run
MaxWarm    == 22    \* [0xF8] callbacks of one source before the concurrent run

----------------------------------------------------------------------------
(* Status bytes and masks of handle_message *)

SysExByte    == 240   \* 0xf0
ControlNib   == 176   \* 0xb0
ClockByte    == 248   \* 0xf8
StartByte    == 250   \* 0xfa
EndByte      == 252   \* 0xfc
RealtimeNib  == 240   \* 0xf0
NoteOnNib    == 144   \* 0x90
NoteOffNib   == 128   \* 0x80
PulsesPerQuarter == 24

\* b & 0xf0
HighNibble(b) == b - (b % 16)

None == <<>>
Some(s) == <<s>>

----------------------------------------------------------------------------
(* format!("{:02x}", n): lowercase hex, zero-padded to at least two digits *)

HexDigit == <<"0","1","2","3","4","5","6","7","8","9","a","b","c","d","e","f">>

RECURSIVE LowerHex(_)
LowerHex(n) == IF n < 16 THEN HexDigit[n + 1]
               ELSE LowerHex(n \div 16) \o HexDigit[(n % 16) + 1]

Hex02Unpadded(n) == LowerHex(n)

Hex02(n) == IF n < 16 THEN "0" \o LowerHex(n) ELSE LowerHex(n)

RECURSIVE HexDump(_)
HexDump(m) == IF m = <<>> THEN "" ELSE Hex02(Head(m)) \o HexDump(Tail(m))

----------------------------------------------------------------------------
(* MidiHandler.  A handler value h is [clock_counter, delta_clock_counter,  *)
(* history]; each method yields the handler after the call and its return.  *)

MidiHandlerNew ==
    [clock_counter |-> 0, delta_clock_counter |-> 0, history |-> <<>>]

\* Variants of the methods with one slip each.
IncrementClockLate(h) ==
    LET c == h.clock_counter + 1
        d == h.delta_clock_counter + 1
    IN  IF c > PulsesPerQuarter
        THEN [h |-> [h EXCEPT !.clock_counter = 0, !.delta_clock_counter = 0],
              ret |-> Some("Q ")]
        ELSE [h |-> [h EXCEPT !.clock_counter = c, !.delta_clock_counter = d],
              ret |-> None]

IncrementClockKeepDelta(h) ==
    LET c == h.clock_counter + 1
        d == h.delta_clock_counter + 1
    IN  IF c >= PulsesPerQuarter
        THEN [h |-> [h EXCEPT !.clock_counter = 0, !.delta_clock_counter = d],
              ret |-> Some("Q ")]
        ELSE [h |-> [h EXCEPT !.clock_counter = c, !.delta_clock_counter = d],
              ret |-> None]

IncrementClockNoWrap(h) ==
    LET c == h.clock_counter + 1
        d == h.delta_clock_counter + 1
    IN  IF c >= PulsesPerQuarter
        THEN [h |-> [h EXCEPT !.clock_counter = c, !.delta_clock_counter = 0],
              ret |-> Some("Q ")]
        ELSE [h |-> [h EXCEPT !.clock_counter = c, !.delta_clock_counter = d],
              ret |-> None]

IncrementClock(h) ==
    LET c == h.clock_counter + 1
        d == h.delta_clock_counter + 1
    IN  IF c >= PulsesPerQuarter
        THEN [h |-> [h EXCEPT !.clock_counter = 0, !.delta_clock_counter = 0],
              ret |-> Some("Q ")]
        ELSE [h |-> [h EXCEPT !.clock_counter = c, !.delta_clock_counter = d],
              ret |-> None]

ResetClockCounterOnly(h) ==
    [h EXCEPT !.clock_counter = 0]

ResetClock(h) ==
    [h EXCEPT !.clock_counter = 0, !.delta_clock_counter = 0]

GetDeltaTimeNoReset(h) ==
    IF h.delta_clock_counter > 0
    THEN [h |-> h, ret |-> "P" \o Hex02(h.delta_clock_counter) \o " "]
    ELSE [h |-> h, ret |-> ""]

GetDeltaTime(h) ==
    IF h.delta_clock_counter > 0
    THEN [h |-> [h EXCEPT !.delta_clock_counter = 0],
          ret |-> "P" \o Hex02(h.delta_clock_counter) \o " "]
    ELSE [h |-> h, ret |-> ""]

\* The conditions of the if/else chain, each as written in the source.
\* TLC evaluates /\ and \/ left to right and lazily, as Rust does && and ||.
IsEmpty(m)         == Len(m) = 0
IsSysEx(m)         == m[1] = SysExByte
IsControlChangeUnmasked(m) == m[1] = ControlNib
IsControlChange(m) == HighNibble(m[1]) = ControlNib
IsTimingClockAnyLength(m) == m[1] = ClockByte
IsTimingClock(m)   == Len(m) = 1 /\ m[1] = ClockByte
IsStart(m)         == Len(m) = 1 /\ m[1] = StartByte
IsEnd(m)           == Len(m) = 1 /\ m[1] = EndByte
IsOtherRealtime(m) == HighNibble(m[1]) = RealtimeNib
IsNoteOffZeroVelocity(m) ==
    Len(m) = 3 /\ HighNibble(m[1]) \in {NoteOnNib, NoteOffNib} /\ m[3] = 0
IsNoteOff(m)       == \/ (Len(m) = 3 /\ (HighNibble(m[1]) = NoteOnNib /\ m[3] = 0))
                      \/ (Len(m) = 3 /\ HighNibble(m[1]) = NoteOffNib)
IsNoteOn(m)        == Len(m) = 3 /\ HighNibble(m[1]) = NoteOnNib

\* The branch of the chain that handles m (first condition that holds).
Branch(m) ==
    IF IsEmpty(m) THEN "Empty"
    ELSE IF IsSysEx(m) THEN "SysEx"
    ELSE IF IsControlChange(m) THEN "ControlChange"
    ELSE IF IsTimingClock(m) THEN "TimingClock"
    ELSE IF IsStart(m) THEN "Start"
    ELSE IF IsEnd(m) THEN "End"
    ELSE IF IsOtherRealtime(m) THEN "OtherRealtime"
    ELSE IF IsNoteOff(m) THEN "NoteOff"
    ELSE IF IsNoteOn(m) THEN "NoteOn"
    ELSE "Raw"

\* The zero-based indices message[i] that the call evaluates on m: message[0]
\* by every condition after the length test, message[2] by the note-off
\* condition only behind len() == 3 and the 0x90 test, message[1] and
\* message[2] by the note branches.
Indexed(m) ==
    IF IsEmpty(m) THEN {}
    ELSE {0} \cup
         (IF Branch(m) \in {"NoteOff", "NoteOn", "Raw"}
             /\ Len(m) = 3 /\ HighNibble(m[1]) = NoteOnNib THEN {2} ELSE {})
         \cup (IF Branch(m) = "NoteOff" THEN {1} ELSE {})
         \cup (IF Branch(m) = "NoteOn" THEN {1, 2} ELSE {})

\* An index at or past len() panics.
IndexPanics(m) == \E i \in Indexed(m) : i >= Len(m)

\* The text assembled in `output` and the handler after the branch ran.
RunBranch(h, m) ==
    LET b == Branch(m) IN
    IF b = "TimingClock" THEN
        LET r == IncrementClock(h)
        IN  [h |-> r.h, output |-> IF r.ret = None THEN "" ELSE r.ret[1]]
    ELSE IF b = "Start" THEN [h |-> ResetClock(h), output |-> "Start "]
    ELSE IF b = "End" THEN [h |-> h, output |-> "End "]
    ELSE IF b = "NoteOff" THEN
        LET r == GetDeltaTime(h)
        IN  [h |-> r.h, output |-> r.ret \o "O" \o Hex02(m[2]) \o " "]
    ELSE IF b = "NoteOn" THEN
        LET r == GetDeltaTime(h)
        IN  [h |-> r.h,
             output |-> r.ret \o "N" \o Hex02(m[2]) \o " v" \o Hex02(m[3]) \o " "]
    ELSE IF b = "Raw" THEN [h |-> h, output |-> "M" \o HexDump(m) \o " "]
    ELSE [h |-> h, output |-> ""]

HandleMessagePushAlways(h, m) ==
    LET b == Branch(m)
        r == RunBranch(h, m)
    IN  IF b \in {"Empty", "SysEx", "ControlChange", "OtherRealtime"}
        THEN [h |-> h, ret |-> None, branch |-> b]
        ELSE [h |-> [r.h EXCEPT !.history = Append(r.h.history, r.output)],
              ret |-> IF r.output = "" THEN None ELSE Some(r.output), branch |-> b]

\* handle_message: the early returns, the branch, then the push to history.
HandleMessage(h, m) ==
    LET b == Branch(m)
        r == RunBranch(h, m)
    IN  IF b \in {"Empty", "SysEx", "ControlChange", "OtherRealtime"}
        THEN [h |-> h, ret |-> None, branch |-> b]
        ELSE IF r.output = ""
        THEN [h |-> r.h, ret |-> None, branch |-> b]
        ELSE [h |-> [r.h EXCEPT !.history = Append(r.h.history, r.output)],
              ret |-> Some(r.output), branch |-> b]

----------------------------------------------------------------------------
(* Sequential use of one handler: handle_message called with one message    *)
(* after another, as each input callback does under the handler's mutex.    *)

\* The messages fed to the handler: one or more of every shape the chain
\* tells apart.
Messages ==
    { <<>>,                      \* empty
      <<240, 126>>,              \* SysEx start
      <<179, 64, 127>>,          \* Control Change, channel 3
      <<248>>,                   \* Timing Clock
      <<250>>,                   \* Start
      <<252>>,                   \* End
      <<254>>,                   \* Active Sensing
      <<248, 0>>,                \* 0xF8 followed by a stray byte
      <<128, 60, 0>>,            \* Note Off
      <<144, 60, 0>>,            \* Note On with velocity 0
      <<144, 60, 100>>,          \* Note On
      <<137, 60, 127>>,          \* Note Off, channel 9, release velocity 127
      <<153, 60, 0>>,            \* Note On with velocity 0, channel 9
      <<128, 72, 0>>,            \* Note Off of another note
      <<145, 60>>,               \* truncated Note On
      <<161, 2, 3, 4>> }         \* anything else

\* The messages of a long clocked run.
ClockMessages ==
    { <<248>>, <<250>>, <<128, 60, 0>>, <<144, 60, 100>>, <<254>> }

Handler == [clock_counter |-> clock_counter,
            delta_clock_counter |-> delta_clock_counter,
            history |-> history]

\* A three-byte message with status 0x8n or 0x9n.
NoteMessage(m) == Len(m) = 3 /\ HighNibble(m[1]) \in {NoteOffNib, NoteOnNib}

Sources == {"A", "B"}

\* No callback has been delivered yet.
InitThreads ==
    /\ pc = [s \in Sources |-> "idle"]
    /\ arg = [s \in Sources |-> <<>>]
    /\ reply = [s \in Sources |-> None]
    /\ handler_lock = "free"
    /\ out_buffer = <<>>
    /\ out_stream = <<>>
    /\ delivered = 0
    /\ got = [s \in Sources |-> <<>>]
    /\ own = [s \in Sources |-> MidiHandlerNew]
    /\ serial = MidiHandlerNew

\* MidiHandler::new() and no call yet.
InitHandler ==
    /\ clock_counter = MidiHandlerNew.clock_counter
    /\ delta_clock_counter = MidiHandlerNew.delta_clock_counter
    /\ history = MidiHandlerNew.history
    /\ result = None
    /\ branch = "Init"
    /\ panicked = FALSE
    /\ clocks_fed = 0
    /\ only_clocks = TRUE
    /\ since_start = -1
    /\ since_note = 0
    /\ since_mark = 0
    /\ no_start = TRUE
    /\ returned = <<>>

\* MidiSender::new(conn, 1)
MidiSenderNew(conn) == [conn |-> conn, clock_conn |-> None, channel |-> 1]

\* A connection is named by its kind and its port.
InputConn(p)  == <<"in", p>>
ClockConn(p)  == <<"clock", p>>
OutputConn(p) == <<"out", p>>

\* main is listening with the input ports "A" and "B" connected, no output
\* port and no --output or --clock argument.
InitListening ==
    /\ main_pc = "listening"
    /\ in_ports = Sources
    /\ out_ports = {}
    /\ output_name = ""
    /\ clock_name = ""
    /\ todo = <<>>
    /\ connections = <<"A", "B">>
    /\ sender = MidiSenderNew(None)
    /\ sender_strong = 1
    /\ sender_lock = "free"
    /\ clock_local = None
    /\ clock_pc = "idle"
    /\ clock_arg = <<>>
    /\ hooked = 0
    /\ established = {InputConn("A"), InputConn("B")}
    /\ closed = {}
    /\ refused = {}
    /\ failed = FALSE
    /\ dropped_by = "none"
    /\ handled_from = {}

Init == InitHandler /\ message = <<>> /\ InitThreads /\ InitListening

\* The bookkeeping of what was fed and returned, from the call's message m
\* and its return value ret alone.
Observe(m, ret) ==
    /\ clocks_fed' = IF m = <<ClockByte>> THEN clocks_fed + 1 ELSE clocks_fed
    /\ only_clocks' = (only_clocks /\ m = <<ClockByte>>)
    /\ since_start' = IF m = <<StartByte>> THEN 0
                      ELSE IF m = <<ClockByte>>
                      THEN (IF since_start \in 0..(PulsesPerQuarter - 1)
                            THEN since_start + 1 ELSE -1)
                      ELSE since_start
    /\ since_note' = IF NoteMessage(m) /\ ret # None THEN 0
                     ELSE IF m = <<ClockByte>> THEN since_note + 1
                     ELSE since_note
    /\ since_mark' = IF (NoteMessage(m) /\ ret # None) \/ ret = Some("Q ") THEN 0
                     ELSE IF m = <<ClockByte>> THEN since_mark + 1
                     ELSE since_mark
    /\ no_start' = (no_start /\ m # <<StartByte>>)
    /\ returned' = returned \o ret

\* The handler, the record of the call and the bookkeeping once
\* handle_message(m) has ended with r.
Returned(m, r) ==
    /\ clock_counter' = r.h.clock_counter
    /\ delta_clock_counter' = r.h.delta_clock_counter
    /\ history' = r.h.history
    /\ message' = m
    /\ result' = r.ret
    /\ branch' = r.branch
    /\ panicked' = (panicked \/ IndexPanics(m))
    /\ Observe(m, r.ret)

\* handler.handle_message(m)
Call(m) ==
    LET r == HandleMessage(Handler, m) IN
    /\ Len(r.h.history) <= MaxHistory
    /\ Returned(m, r)
    /\ UNCHANGED <<thread_vars, source_vars, main_vars>>

\* Any message shape, a few clocks.
Next ==
    \E m \in Messages :
        /\ m = <<ClockByte>> => clocks_fed < MaxBurst
        /\ Call(m)

Spec == Init /\ [][Next]_vars

\* Clocks, Starts and notes, past the quarter-note boundary.
NextClock ==
    \E m \in ClockMessages :
        /\ m = <<ClockByte>> => clocks_fed < MaxClocks
        /\ Call(m)

SpecClock == Init /\ [][NextClock]_vars

----------------------------------------------------------------------------
(* Classification alone: one call on a fresh handler, for every message of  *)
(* up to MaxLen bytes over bytes that sit on and around every mask and      *)
(* constant the chain compares with.                                        *)

ProbeBytes == {0, 60, 100, 128, 144, 153, 161, 179, 240, 248, 250, 252, 254}

ProbeMessages == UNION {[1..n -> ProbeBytes] : n \in 0..MaxLen}

InitClassify ==
    InitHandler /\ message \in ProbeMessages /\ InitThreads /\ InitListening

Classify == branch = "Init" /\ Call(message)

SpecClassify == InitClassify /\ [][Classify]_vars

----------------------------------------------------------------------------
(* main: one MidiHandler behind Arc<Mutex<..>>, cloned into the callback of *)
(* every input port.  The driver runs each port's callbacks one at a time   *)
(* on that port's own thread.  A callback is                                *)
(*   if let Some(s) = handler.lock().unwrap().handle_message(message) {     *)
(*       print!("{}", s); let _ = stdout().flush(); }                       *)
(* and the MutexGuard, a temporary of the if-let scrutinee, is dropped at   *)
(* the end of the whole if-let statement.                                   *)

MainMessages == { <<248>>, <<250>>, <<144, 60, 100>>, <<254>> }

\* Before any two callbacks overlap: a callback of source "A" for [0xF8]
\* runs from its invocation to its return with no other callback in flight.
WarmUp ==
    LET m == <<ClockByte>>
        r == HandleMessage(Handler, m)
    IN  /\ main_pc # "exited"
        /\ "A" \in {connections[i] : i \in 1..Len(connections)}
        /\ delivered = 0
        /\ clocks_fed < MaxWarm
        /\ Returned(m, r)
        /\ arg' = [arg EXCEPT !["A"] = m]
        /\ reply' = [reply EXCEPT !["A"] = r.ret]
        /\ out_stream' = out_stream \o out_buffer \o r.ret
        /\ out_buffer' = <<>>
        /\ got' = [got EXCEPT !["A"] = @ \o r.ret]
        /\ own' = [own EXCEPT !["A"] = HandleMessage(@, m).h]
        /\ serial' = HandleMessage(serial, m).h
        /\ UNCHANGED <<pc, handler_lock, delivered, main_vars>>

\* The driver invokes the callback of source s with message m.
Deliver(s, m) ==
    /\ main_pc # "exited"
    /\ s \in {connections[i] : i \in 1..Len(connections)}
    /\ pc[s] = "idle"
    /\ delivered < MaxDeliveries
    /\ delivered' = delivered + 1
    /\ arg' = [arg EXCEPT ![s] = m]
    /\ pc' = [pc EXCEPT ![s] = "lock"]
    /\ UNCHANGED <<handler_vars, call_vars, ghost_vars, source_vars,
                   reply, handler_lock, out_buffer, out_stream, main_vars>>

CanLockAlways(s) == TRUE

\* Mutex::lock returns once no other thread holds the guard.
CanLock(s) == handler_lock = "free"

\* handler.lock().unwrap()
Lock(s) ==
    /\ pc[s] = "lock"
    /\ CanLock(s)
    /\ handler_lock' = s
    /\ pc' = [pc EXCEPT ![s] = "handle"]
    /\ UNCHANGED <<handler_vars, call_vars, ghost_vars, source_vars,
                   arg, reply, delivered, out_buffer, out_stream, main_vars>>

GuardAfterCallDropped(s) == "free"

\* The MutexGuard is a temporary of the if-let scrutinee: when the call
\* returns the lock stays with the callback of s.
GuardAfterCall(s) == s

\* handle_message has returned r to the callback of s.
Complete(s, r) ==
    /\ Returned(arg[s], r)
    /\ reply' = [reply EXCEPT ![s] = r.ret]
    /\ pc' = [pc EXCEPT ![s] = IF r.ret = None THEN "unlock" ELSE "print"]
    /\ got' = [got EXCEPT ![s] = @ \o r.ret]
    /\ own' = [own EXCEPT ![s] = HandleMessage(@, arg[s]).h]
    /\ serial' = HandleMessage(serial, arg[s]).h
    /\ handler_lock' = GuardAfterCall(s)
    /\ UNCHANGED <<arg, out_buffer, out_stream, delivered, main_vars>>

\* handle_message up to its first write: for a timing clock that is
\* `self.clock_counter += 1` of increment_clock; any other message is
\* handled in one step.
Handle(s) ==
    /\ pc[s] = "handle"
    /\ IF Branch(arg[s]) = "TimingClock"
       THEN /\ clock_counter' = clock_counter + 1
            /\ pc' = [pc EXCEPT ![s] = "inc_delta"]
            /\ UNCHANGED <<delta_clock_counter, history, call_vars, ghost_vars,
                           source_vars, arg, reply, handler_lock, out_buffer,
                           out_stream, delivered, main_vars>>
       ELSE Complete(s, HandleMessage(Handler, arg[s]))

\* self.delta_clock_counter += 1
IncDelta(s) ==
    /\ pc[s] = "inc_delta"
    /\ delta_clock_counter' = delta_clock_counter + 1
    /\ pc' = [pc EXCEPT ![s] = "inc_check"]
    /\ UNCHANGED <<clock_counter, history, call_vars, ghost_vars, source_vars,
                   arg, reply, handler_lock, out_buffer, out_stream, delivered,
                   main_vars>>

\* if self.clock_counter >= 24 { .. } of increment_clock, then the end of
\* handle_message.
IncCheck(s) ==
    /\ pc[s] = "inc_check"
    /\ IF clock_counter >= PulsesPerQuarter
       THEN Complete(s, [h |-> [clock_counter |-> 0, delta_clock_counter |-> 0,
                                history |-> Append(history, "Q ")],
                         ret |-> Some("Q "), branch |-> "TimingClock"])
       ELSE Complete(s, [h |-> Handler, ret |-> None, branch |-> "TimingClock"])

\* print!("{}", s)
WriteToken(s) ==
    /\ pc[s] = "print"
    /\ out_buffer' = Append(out_buffer, reply[s][1])
    /\ pc' = [pc EXCEPT ![s] = "flush"]
    /\ UNCHANGED <<handler_vars, call_vars, ghost_vars, source_vars,
                   arg, reply, handler_lock, out_stream, delivered, main_vars>>

\* stdout().flush()
Flush(s) ==
    /\ pc[s] = "flush"
    /\ out_stream' = out_stream \o out_buffer
    /\ out_buffer' = <<>>
    /\ pc' = [pc EXCEPT ![s] = "unlock"]
    /\ UNCHANGED <<handler_vars, call_vars, ghost_vars, source_vars,
                   arg, reply, handler_lock, delivered, main_vars>>

\* End of the if-let statement: the MutexGuard is dropped.
Unlock(s) ==
    /\ pc[s] = "unlock"
    /\ handler_lock' = "free"
    /\ pc' = [pc EXCEPT ![s] = "idle"]
    /\ UNCHANGED <<handler_vars, call_vars, ghost_vars, source_vars,
                   arg, reply, out_buffer, out_stream, delivered, main_vars>>

NextMain ==
    \/ WarmUp
    \/ \E s \in Sources :
        \/ \E m \in MainMessages : Deliver(s, m)
        \/ Lock(s)
        \/ Handle(s)
        \/ IncDelta(s)
        \/ IncCheck(s)
        \/ WriteToken(s)
        \/ Flush(s)
        \/ Unlock(s)

SpecMain == Init /\ [][NextMain]_vars

----------------------------------------------------------------------------
(* main, from port enumeration to process exit, with the sender, the clock  *)
(* connection and the thread that runs the clock connection's callback.     *)
(* Every driver call that returns a Result may fail; `?` then returns from  *)
(* main, which drops the locals that exist, in reverse declaration order.   *)

\* The order in which the driver enumerates the input ports.
PortOrder == <<"A", "B", "C">>

PortNames == {PortOrder[i] : i \in 1..Len(PortOrder)}

OutputPorts == {"O"}

\* A port name that no enumerated port has.
Absent == "X"

Range(q) == {q[i] : i \in 1..Len(q)}

\* port_names: the names of the enumerated ports, in enumeration order.
PortNamesOf(ports) == SelectSeq(PortOrder, LAMBDA p : p \in ports)

\* ports.iter().find(|p| port_name(p) == name)
FindPort(ports, name) == IF name \in ports THEN Some(name) ELSE None

\* out_ports.get(0)
FirstPort(ports) == IF ports = {} THEN None ELSE Some(CHOOSE p \in ports : TRUE)

SelectOutputAnyway(ports, name) == FirstPort(ports)

\* The output port: the one named by --output=, else the first one.
SelectOutput(ports, name) ==
    IF name # "" THEN FindPort(ports, name) ELSE FirstPort(ports)

\* Some(name.as_str()) == clock_port_name
IsClockPort(name) == clock_name # "" /\ name = clock_name

IsClockPulseAnyRealtime(m) == Len(m) = 1

\* message.len() == 1 && message[0] == 0xf8
IsClockPulse(m) == Len(m) = 1 /\ m[1] = ClockByte

\* MidiSender::handle_clock
HandleClock(snd) == snd

SetClockInputDropped(snd, conn) == snd

\* MidiSender::set_clock_input
SetClockInputOf(snd, conn) == [snd EXCEPT !.clock_conn = Some(conn)]

\* The connections a MidiSender owns.
OwnedBy(snd) == Range(snd.conn) \cup Range(snd.clock_conn)

env_vars   == <<in_ports, out_ports, output_name, clock_name>>
clock_vars == <<clock_pc, clock_arg, hooked>>
port_vars  == <<handler_vars, call_vars, ghost_vars, thread_vars, source_vars,
                handled_from>>

\* The process starts with some ports plugged in and some arguments given.
InitStartup ==
    /\ InitHandler /\ message = <<>> /\ InitThreads
    /\ main_pc = "probe"
    /\ in_ports \in SUBSET PortNames
    /\ out_ports \in SUBSET OutputPorts
    /\ output_name \in {""} \cup OutputPorts \cup {Absent}
    /\ clock_name \in {""} \cup PortNames \cup {Absent}
    /\ todo = <<>>
    /\ connections = <<>>
    /\ sender = MidiSenderNew(None)
    /\ sender_strong = 0
    /\ sender_lock = "free"
    /\ clock_local = None
    /\ clock_pc = "idle"
    /\ clock_arg = <<>>
    /\ hooked = 0
    /\ established = {}
    /\ closed = {}
    /\ refused = {}
    /\ failed = FALSE
    /\ dropped_by = "none"
    /\ handled_from = {}

\* `?` on an Err: main returns the error and its locals are dropped.
Fail(what) ==
    /\ main_pc' = "drop_connections"
    /\ failed' = TRUE
    /\ refused' = refused \cup {what}

\* MidiInput::new("midi_monitor_probe")?, the port list, the early exit.
Probe(o) ==
    /\ main_pc = "probe"
    /\ \/ /\ o = "no_client"
          /\ Fail(<<"client", "probe">>)
          /\ todo' = todo
       \/ /\ o = "ok"
          /\ main_pc' = IF in_ports = {} THEN "returned" ELSE "output"
          /\ todo' = PortNamesOf(in_ports)
          /\ UNCHANGED <<failed, refused>>
    /\ UNCHANGED <<port_vars, env_vars, clock_vars, connections, sender,
                   sender_strong, sender_lock, clock_local, established,
                   closed, dropped_by>>

\* MidiOutput::new(..)?, the choice of the output port, connect(..)?, and
\* Arc::new(Mutex::new(MidiSender::new(out_conn, 1))).
SetupOutput(o) ==
    LET port == SelectOutput(out_ports, output_name)
    IN  /\ main_pc = "output"
        /\ \/ /\ o = "no_client"
              /\ Fail(<<"client", "output">>)
              /\ UNCHANGED <<sender, sender_strong, established>>
           \/ /\ o = "refused"
              /\ port # None
              /\ Fail(OutputConn(port[1]))
              /\ UNCHANGED <<sender, sender_strong, established>>
           \/ /\ o = "ok"
              /\ sender' = MidiSenderNew(IF port = None THEN None
                                         ELSE Some(OutputConn(port[1])))
              /\ sender_strong' = 1
              /\ established' = established \cup
                                  {OutputConn(port[i]) : i \in 1..Len(port)}
              /\ main_pc' = "clock"
              /\ UNCHANGED <<failed, refused>>
        /\ UNCHANGED <<port_vars, env_vars, clock_vars, todo, connections,
                       sender_lock, clock_local, closed, dropped_by>>

\* if let Some(name) = clock_port_name: MidiInput::new("midi_clock_in")?,
\* the lookup by name, Arc::downgrade and connect(..)?.
SetupClock(o) ==
    LET port == FindPort(in_ports, clock_name)
    IN  /\ main_pc = "clock"
        /\ \/ /\ o = "no_client"
              /\ clock_name # ""
              /\ Fail(<<"client", "clock">>)
              /\ UNCHANGED <<clock_local, established>>
           \/ /\ o = "refused"
              /\ clock_name # ""
              /\ port # None
              /\ Fail(ClockConn(port[1]))
              /\ UNCHANGED <<clock_local, established>>
           \/ /\ o = "ok"
              /\ IF clock_name # "" /\ port # None
                 THEN /\ clock_local' = Some(ClockConn(port[1]))
                      /\ established' = established \cup {ClockConn(port[1])}
                      /\ main_pc' = "set_clock_lock"
                 ELSE /\ main_pc' = "loop"
                      /\ UNCHANGED <<clock_local, established>>
              /\ UNCHANGED <<failed, refused>>
        /\ UNCHANGED <<port_vars, env_vars, clock_vars, todo, connections,
                       sender, sender_strong, sender_lock, closed, dropped_by>>

\* sender.lock().unwrap()
LockSender ==
    /\ main_pc = "set_clock_lock"
    /\ sender_lock = "free"
    /\ sender_lock' = "main"
    /\ main_pc' = "set_clock"
    /\ UNCHANGED <<port_vars, env_vars, clock_vars, todo, connections, sender,
                   sender_strong, clock_local, established, closed, refused,
                   failed, dropped_by>>

\* .set_clock_input(conn): conn is moved into the call, so it is closed on
\* return unless the sender has stored it; the guard is dropped at the end
\* of the statement.
SetClockInput ==
    /\ main_pc = "set_clock"
    /\ sender' = SetClockInputOf(sender, clock_local[1])
    /\ clock_local' = None
    /\ closed' = closed \cup (Range(clock_local) \ OwnedBy(sender'))
    /\ sender_lock' = "free"
    /\ main_pc' = "loop"
    /\ UNCHANGED <<port_vars, env_vars, clock_vars, todo, connections,
                   sender_strong, established, refused, failed, dropped_by>>

\* One turn of `for name in port_names`: the clock port is skipped, any
\* other port gets MidiInput::new(..)?, connect(..)? and connections.push.
Connect(o) ==
    /\ main_pc = "loop"
    /\ todo # <<>>
    /\ LET name == Head(todo)
       IN  \/ /\ o = "no_client"
              /\ ~IsClockPort(name)
              /\ Fail(<<"client", name>>)
              /\ UNCHANGED <<todo, connections, established>>
           \/ /\ o = "refused"
              /\ ~IsClockPort(name)
              /\ Fail(InputConn(name))
              /\ UNCHANGED <<todo, connections, established>>
           \/ /\ o = "ok"
              /\ todo' = Tail(todo)
              /\ IF IsClockPort(name)
                 THEN UNCHANGED <<connections, established>>
                 ELSE /\ connections' = Append(connections, name)
                      /\ established' = established \cup {InputConn(name)}
              /\ UNCHANGED <<main_pc, failed, refused>>
    /\ UNCHANGED <<port_vars, env_vars, clock_vars, sender, sender_strong,
                   sender_lock, clock_local, closed, dropped_by>>

\* The loop is over: "Listening on all ports", then stdin().read_line blocks.
Listen ==
    /\ main_pc = "loop"
    /\ todo = <<>>
    /\ main_pc' = "listening"
    /\ UNCHANGED <<port_vars, env_vars, clock_vars, todo, connections, sender,
                   sender_strong, sender_lock, clock_local, established,
                   closed, refused, failed, dropped_by>>

\* read_line(&mut input)? completes, with a line or with an error.
ReadLine(o) ==
    /\ main_pc = "listening"
    /\ main_pc' = "drop_connections"
    /\ failed' = (o # "ok")
    /\ refused' = IF o = "ok" THEN refused ELSE refused \cup {<<"stdin", "read">>}
    /\ UNCHANGED <<port_vars, env_vars, clock_vars, todo, connections, sender,
                   sender_strong, sender_lock, clock_local, established,
                   closed, dropped_by>>

\* main returns: `connections` is dropped, which closes every monitored
\* connection once its callback in flight, if any, has returned.
DropConnections ==
    /\ main_pc = "drop_connections"
    /\ \A s \in Range(connections) \cap Sources : pc[s] = "idle"
    /\ closed' = closed \cup {InputConn(p) : p \in Range(connections)}
    /\ connections' = <<>>
    /\ main_pc' = "drop_sender"
    /\ UNCHANGED <<port_vars, env_vars, clock_vars, todo, sender,
                   sender_strong, sender_lock, clock_local, established,
                   refused, failed, dropped_by>>

\* main returns: its Arc of the sender is dropped.  With no other strong
\* reference left, the MidiSender is destroyed here, on the main thread.
DropSender ==
    /\ main_pc = "drop_sender"
    /\ IF sender_strong = 0
       THEN /\ main_pc' = "returned"
            /\ UNCHANGED <<sender_strong, dropped_by, closed>>
       ELSE /\ sender_strong' = sender_strong - 1
            /\ IF sender_strong = 1
               THEN /\ dropped_by' = "main"
                    /\ closed' = closed \cup Range(sender.conn)
                    /\ main_pc' = IF sender.clock_conn # None
                                  THEN "close_clock" ELSE "returned"
               ELSE /\ main_pc' = "returned"
                    /\ UNCHANGED <<dropped_by, closed>>
    /\ UNCHANGED <<port_vars, env_vars, clock_vars, todo, connections, sender,
                   sender_lock, clock_local, established, refused, failed>>

\* Dropping the sender's clock connection on the main thread waits for the
\* clock callback in flight, if any, and closes the connection.
CloseClock ==
    /\ main_pc = "close_clock"
    /\ clock_pc = "idle"
    /\ closed' = closed \cup Range(sender.clock_conn)
    /\ main_pc' = "returned"
    /\ UNCHANGED <<port_vars, env_vars, clock_vars, todo, connections, sender,
                   sender_strong, sender_lock, clock_local, established,
                   refused, failed, dropped_by>>

\* main has returned: the process exits and every thread stops.
ProcessExit ==
    /\ main_pc = "returned"
    /\ main_pc' = "exited"
    /\ UNCHANGED <<port_vars, env_vars, clock_vars, todo, connections, sender,
                   sender_strong, sender_lock, clock_local, established,
                   closed, refused, failed, dropped_by>>

ClockOpen == \E c \in established \ closed : c[1] = "clock"

StartupClockMessages == { <<248>>, <<250>>, <<248, 0>> }

\* The driver invokes the clock connection's callback with message m; a
\* message that is not exactly [0xF8] makes the callback return at once.
ClockDeliver(m) ==
    /\ main_pc # "exited"
    /\ ClockOpen
    /\ clock_pc = "idle"
    /\ clock_arg' = m
    /\ hooked' = 0
    /\ clock_pc' = IF IsClockPulse(m) THEN "upgrade" ELSE "idle"
    /\ UNCHANGED <<port_vars, env_vars, main_pc, todo, connections, sender,
                   sender_strong, sender_lock, clock_local, established,
                   closed, refused, failed, dropped_by>>

\* sender_weak.upgrade(): a strong reference while the sender lives.
ClockUpgrade ==
    /\ main_pc # "exited"
    /\ clock_pc = "upgrade"
    /\ IF sender_strong > 0
       THEN sender_strong' = sender_strong + 1 /\ clock_pc' = "lock"
       ELSE sender_strong' = sender_strong /\ clock_pc' = "idle"
    /\ UNCHANGED <<port_vars, env_vars, main_pc, todo, connections, sender,
                   sender_lock, clock_local, clock_arg, hooked, established,
                   closed, refused, failed, dropped_by>>

\* sender_arc.lock().unwrap()
ClockLock ==
    /\ main_pc # "exited"
    /\ clock_pc = "lock"
    /\ sender_lock = "free"
    /\ sender_lock' = "clock"
    /\ clock_pc' = "hook"
    /\ UNCHANGED <<port_vars, env_vars, main_pc, todo, connections, sender,
                   sender_strong, clock_local, clock_arg, hooked, established,
                   closed, refused, failed, dropped_by>>

\* .handle_clock()
ClockHook ==
    /\ main_pc # "exited"
    /\ clock_pc = "hook"
    /\ sender' = HandleClock(sender)
    /\ hooked' = hooked + 1
    /\ clock_pc' = "unlock"
    /\ UNCHANGED <<port_vars, env_vars, main_pc, todo, connections,
                   sender_strong, sender_lock, clock_local, clock_arg,
                   established, closed, refused, failed, dropped_by>>

ClockUnlockLeaked ==
    /\ main_pc # "exited"
    /\ clock_pc = "unlock"
    /\ clock_pc' = "drop_arc"
    /\ UNCHANGED <<port_vars, env_vars, main_pc, todo, connections, sender,
                   sender_strong, sender_lock, clock_local, clock_arg, hooked,
                   established, closed, refused, failed, dropped_by>>

\* End of the statement: the MutexGuard is dropped.
ClockUnlock ==
    /\ main_pc # "exited"
    /\ clock_pc = "unlock"
    /\ sender_lock' = "free"
    /\ clock_pc' = "drop_arc"
    /\ UNCHANGED <<port_vars, env_vars, main_pc, todo, connections, sender,
                   sender_strong, clock_local, clock_arg, hooked, established,
                   closed, refused, failed, dropped_by>>

\* End of the if-let: sender_arc is dropped.  If main dropped its Arc in the
\* meantime this is the last strong reference, and the MidiSender, with the
\* clock connection stored in it, is destroyed on the callback's own thread:
\* the connection is closed from inside its own callback, which the driver
\* may survive, may never return from, or may panic on.
ClockDropArc(o) ==
    /\ main_pc # "exited"
    /\ clock_pc = "drop_arc"
    /\ sender_strong' = sender_strong - 1
    /\ IF sender_strong = 1
       THEN /\ dropped_by' = "clock"
            /\ \/ /\ o = "closed"
                  /\ closed' = closed \cup OwnedBy(sender)
                  /\ clock_pc' = "idle"
               \/ /\ o = "deadlock"
                  /\ sender.clock_conn # None
                  /\ closed' = closed \cup Range(sender.conn)
                  /\ clock_pc' = "deadlocked"
               \/ /\ o = "panic"
                  /\ sender.clock_conn # None
                  /\ closed' = closed \cup Range(sender.conn)
                  /\ clock_pc' = "panicked"
       ELSE /\ o = "closed"
            /\ clock_pc' = "idle"
            /\ UNCHANGED <<dropped_by, closed>>
    /\ UNCHANGED <<port_vars, env_vars, main_pc, todo, connections, sender,
                   sender_lock, clock_local, clock_arg, hooked, established,
                   refused, failed>>

StartupMessages == { <<248>>, <<250>> }

\* A callback of the monitored connection c, from its invocation to its
\* return, with no other monitored callback in flight.
Monitor(c, m) ==
    LET r == HandleMessage(Handler, m)
    IN  /\ main_pc # "exited"
        /\ c \in Range(connections)
        /\ handler_lock = "free"
        /\ IsTimingClock(m) => clocks_fed < MaxBurst
        /\ Len(r.h.history) <= MaxHistory
        /\ Returned(m, r)
        /\ out_stream' = out_stream \o out_buffer \o r.ret
        /\ out_buffer' = <<>>
        /\ serial' = HandleMessage(serial, m).h
        /\ handled_from' = handled_from \cup {c}
        /\ UNCHANGED <<pc, arg, reply, handler_lock, delivered, got, own>>
        /\ UNCHANGED <<env_vars, clock_vars, main_pc, todo, connections,
                       sender, sender_strong, sender_lock, clock_local,
                       established, closed, refused, failed, dropped_by>>

NextStartup ==
    \/ \E o \in {"ok", "no_client"} : Probe(o)
    \/ \E o \in {"ok", "no_client", "refused"} : SetupOutput(o)
    \/ \E o \in {"ok", "no_client", "refused"} : SetupClock(o)
    \/ LockSender
    \/ SetClockInput
    \/ \E o \in {"ok", "no_client", "refused"} : Connect(o)
    \/ Listen
    \/ \E o \in {"ok", "io_error"} : ReadLine(o)
    \/ DropConnections
    \/ DropSender
    \/ CloseClock
    \/ ProcessExit
    \/ \E m \in StartupClockMessages : ClockDeliver(m)
    \/ ClockUpgrade
    \/ ClockLock
    \/ ClockHook
    \/ ClockUnlock
    \/ \E o \in {"closed", "deadlock", "panic"} : ClockDropArc(o)
    \/ \E c \in PortNames, m \in StartupMessages : Monitor(c, m)

SpecStartup == InitStartup /\ [][NextStartup]_vars

----------------------------------------------------------------------------
(* Progress.  Three input ports, --clock=C, a driver that refuses nothing   *)
(* and a user who never presses Enter: main, the clock callback thread and  *)
(* the callback threads of "A" and "B" run for ever.  The operating system  *)
(* schedules every thread that can take a step (weak fairness per thread);  *)
(* when and how often the driver delivers a message is up to the devices.   *)

InitLive ==
    /\ InitStartup
    /\ in_ports = PortNames
    /\ out_ports = {}
    /\ output_name = ""
    /\ clock_name = "C"

\* The driver invokes the callback of source s with Active Sensing [0xFE],
\* which handle_message ignores.
DeliverSensing(s) ==
    /\ main_pc # "exited"
    /\ s \in Range(connections)
    /\ pc[s] = "idle"
    /\ arg' = [arg EXCEPT ![s] = <<254>>]
    /\ pc' = [pc EXCEPT ![s] = "lock"]
    /\ UNCHANGED <<handler_vars, call_vars, ghost_vars, source_vars,
                   reply, handler_lock, out_buffer, out_stream, delivered,
                   main_vars>>

MainStep ==
    \/ Probe("ok")
    \/ SetupOutput("ok")
    \/ SetupClock("ok")
    \/ LockSender
    \/ SetClockInput
    \/ Connect("ok")
    \/ Listen

ClockStep ==
    \/ ClockUpgrade
    \/ ClockLock
    \/ ClockHook
    \/ ClockUnlock
    \/ ClockDropArc("closed")

InputStep(s) ==
    \/ Lock(s)
    \/ Handle(s)
    \/ WriteToken(s)
    \/ Flush(s)
    \/ Unlock(s)

NextLive ==
    \/ MainStep
    \/ ClockDeliver(<<ClockByte>>)
    \/ ClockStep
    \/ \E s \in Sources :
        \/ DeliverSensing(s)
        \/ Deliver(s, <<StartByte>>)
        \/ InputStep(s)

FairLive ==
    /\ WF_vars(MainStep)
    /\ WF_vars(ClockStep)
    /\ \A s \in Sources : WF_vars(InputStep(s))

SpecLive == InitLive /\ [][NextLive]_vars /\ FairLive

----------------------------------------------------------------------------
(* What the claims expect, written from their own wording.                  *)

\* The ordered rule list of the classifier.
RuleHolds(k, m) ==
    CASE k = 1 -> Len(m) = 0
      [] k = 2 -> Len(m) > 0 /\ m[1] = 240
      [] k = 3 -> Len(m) > 0 /\ m[1] \in 176..191
      [] k = 4 -> m = <<248>>
      [] k = 5 -> m = <<250>>
      [] k = 6 -> m = <<252>>
      [] k = 7 -> Len(m) > 0 /\ m[1] \in 240..255
      [] k = 8 -> Len(m) = 3 /\ ((m[1] \in 144..159 /\ m[3] = 0) \/ m[1] \in 128..143)
      [] k = 9 -> Len(m) = 3 /\ m[1] \in 144..159
      [] k = 10 -> TRUE

FirstRule(m) == CHOOSE k \in 1..10 : RuleHolds(k, m) /\ \A j \in 1..(k - 1) : ~RuleHolds(j, m)

RuleName == <<"Empty", "SysEx", "ControlChange", "TimingClock", "Start", "End",
              "OtherRealtime", "NoteOff", "NoteOn", "Raw">>

\* Empty, SysEx, Control Change, and 0xFn other than exactly [0xF8], [0xFA], [0xFC].
TerminalMessage(m) ==
    \/ Len(m) = 0
    \/ /\ Len(m) > 0
       /\ \/ m[1] = 240
          \/ m[1] \in 176..191
          \/ m[1] \in 240..255 /\ m \notin {<<248>>, <<250>>, <<252>>}

\* "P{hh} " for 1..32 pulses, nothing for 0.
PrefixText == <<"P01 ", "P02 ", "P03 ", "P04 ", "P05 ", "P06 ", "P07 ", "P08 ",
                "P09 ", "P0a ", "P0b ", "P0c ", "P0d ", "P0e ", "P0f ", "P10 ",
                "P11 ", "P12 ", "P13 ", "P14 ", "P15 ", "P16 ", "P17 ", "P18 ",
                "P19 ", "P1a ", "P1b ", "P1c ", "P1d ", "P1e ", "P1f ", "P20 ">>

ExpectedPrefix(n) == IF n = 0 THEN "" ELSE PrefixText[n]

\* The note part of the token for the note messages that are fed.
NoteText(m) ==
    CASE m = <<128, 60, 0>>   -> "O3c "
      [] m = <<144, 60, 0>>   -> "O3c "
      [] m = <<144, 60, 100>> -> "N3c v64 "

RECURSIVE Quarters(_)
Quarters(n) == IF n = 0 THEN <<>> ELSE Append(Quarters(n - 1), "Q ")

----------------------------------------------------------------------------
\* C1: every message is handled without an out-of-bounds index, by exactly
\* the first rule of the ordered list that matches it; a multi-byte message
\* that begins 0xF8/0xFA/0xFC is OtherRealtime and a 1- or 2-byte message
\* with status 0x8n/0x9n is Raw.
C1_ClassificationTotal ==
    branch # "Init" =>
        /\ ~panicked
        /\ branch = RuleName[FirstRule(message)]
        /\ (Len(message) > 1 /\ message[1] \in {248, 250, 252})
               => branch = "OtherRealtime"
        /\ (Len(message) \in {1, 2} /\ message[1] \in 128..159)
               => branch = "Raw"

C1_Witness ==
    \/ branch = "OtherRealtime" /\ message = <<248, 0>>
    \/ branch = "Raw" /\ message = <<144, 60>>

\* C2: a terminal message returns no token and leaves clock_counter,
\* delta_clock_counter and history unchanged.
C2_TerminalFrame ==
    [][TerminalMessage(message') =>
          /\ result' = None
          /\ UNCHANGED handler_vars]_vars

C2_Witness ==
    /\ message = <<179, 64, 127>>
    /\ result = None
    /\ clock_counter > 0 /\ delta_clock_counter > 0 /\ history # <<>>

\* C3: on a fresh handler fed only [0xF8], the k-th call returns "Q " exactly
\* when k is a positive multiple of 24 and nothing otherwise, and after k
\* calls clock_counter is k mod 24.
C3_QuarterCycle ==
    (only_clocks /\ clocks_fed > 0) =>
        /\ result = (IF clocks_fed % 24 = 0 THEN Some("Q ") ELSE None)
        /\ clock_counter = clocks_fed % 24
        /\ returned = Quarters(clocks_fed \div 24)

C3_Witness ==
    only_clocks /\ clocks_fed = 24 /\ result = Some("Q ") /\ clock_counter = 0

\* C4: [0xFA] always returns the start token and zeroes both counters, a
\* note handled right after it has no P prefix, and the next "Q " comes on
\* exactly the 24th [0xF8] after it.
C4_StartResets ==
    [][/\ message' = <<250>> =>
            /\ result' = Some("Start ")
            /\ clock_counter' = 0
            /\ delta_clock_counter' = 0
       /\ (message = <<250>> /\ NoteMessage(message')) =>
            result' = Some(NoteText(message'))
       /\ (message' = <<248>> /\ since_start' >= 1) =>
            (result' = Some("Q ") <=> since_start' = 24)]_vars

C4_Witness ==
    /\ message = <<248>> /\ since_start = 24 /\ result = Some("Q ")
    /\ clocks_fed > 24

\* C5 as claimed: with no Start fed, the prefix of a note token encodes the
\* number of [0xF8] handled since the previous note token (none when 0), and
\* delta_clock_counter returns to 0 only when a note consumes it.
C5_DeltaSinceNote ==
    [][no_start' =>
          /\ NoteMessage(message') =>
                result' = Some(ExpectedPrefix(since_note) \o NoteText(message'))
          /\ (delta_clock_counter > 0 /\ delta_clock_counter' = 0) =>
                NoteMessage(message')]_vars

\* C5 as amended: with no Start fed, the prefix of a note token encodes the
\* number of [0xF8] handled since the latest of the previous note token, the
\* previous "Q " token and the creation of the handler (none when 0), and
\* delta_clock_counter returns to 0 only when a note consumes it or a "Q "
\* is returned.
C5_DeltaSinceNoteOrQuarter ==
    [][no_start' =>
          /\ NoteMessage(message') =>
                result' = Some(ExpectedPrefix(since_mark) \o NoteText(message'))
          /\ (delta_clock_counter > 0 /\ delta_clock_counter' = 0) =>
                (NoteMessage(message') \/ result' = Some("Q "))]_vars

C5_Witness ==
    /\ no_start /\ clocks_fed = 25
    /\ returned = <<"Q ", "P01 N3c v64 ">>
    /\ message = <<144, 60, 100>>

\* C6: a note token starts with "P{hh} " for the delta_clock_counter held
\* just before exactly when that is above 0, the note part follows in the
\* same token, and delta_clock_counter is 0 afterwards; 5 clocks then
\* Note On(0x3C, 0x64) on a fresh handler give "P05 N3c v64 ", and a note
\* right after a note has no prefix.
C6_DeltaPrefix ==
    [][/\ NoteMessage(message') =>
            /\ result' = Some(ExpectedPrefix(delta_clock_counter) \o NoteText(message'))
            /\ delta_clock_counter' = 0
       /\ (only_clocks /\ clocks_fed = 5 /\ message' = <<144, 60, 100>>) =>
            result' = Some("P05 N3c v64 ")
       /\ (NoteMessage(message) /\ NoteMessage(message')) =>
            result' = Some(NoteText(message'))]_vars

C6_Witness ==
    /\ returned = <<"P05 N3c v64 ", "N3c v64 ">>
    /\ message = <<144, 60, 100>>
    /\ delta_clock_counter = 0

\* C10: history is append-only and mirrors the returned tokens: a call that
\* returns Some(t) appends exactly t, a call that returns None appends
\* nothing, and history is the sequence of all tokens returned so far.
C10_HistoryMirrorsReturns ==
    [][/\ history' = history \o result'
       /\ history' = returned']_vars

C10_Witness ==
    /\ Len(history) = 2
    /\ result = None
    /\ history = returned

\* C7: each source has its own ClockState and history: the tokens returned
\* to a source's callbacks are those a handler fed that source's messages
\* alone returns, whatever the other source delivers.
C7_PerSourceState ==
    \A s \in Sources : got[s] = own[s].history

\* C8: at most one callback thread is inside handle_message at a time and it
\* holds the handler's mutex; outside a call the ClockState is whole
\* (clock_counter below 24) and the handler and the returned tokens are
\* those of the completed calls run one after the other.
C8_HandleMessageAtomic ==
    LET inside == {s \in Sources : pc[s] \in {"handle", "inc_delta", "inc_check"}}
        midway == {s \in Sources : pc[s] \in {"inc_delta", "inc_check"}}
    IN  /\ Cardinality(inside) <= 1
        /\ \A s \in inside : handler_lock = s
        /\ midway = {} =>
              /\ clock_counter < 24
              /\ delta_clock_counter <= clock_counter
              /\ Handler = serial
              /\ returned = history

C8_Witness ==
    /\ pc["A"] = "inc_check" /\ clock_counter = 24
    /\ pc["B"] = "lock"

\* C9: no callback thread is in its print or flush step while it still holds
\* the handler's mutex.
C9_UnlockedBeforePrint ==
    \A s \in Sources : pc[s] \in {"print", "flush"} => handler_lock # s

----------------------------------------------------------------------------
\* Two lowercase hex digits of the bytes that the fed messages carry.
ByteText(b) ==
    CASE b = 2 -> "02" [] b = 3 -> "03" [] b = 4 -> "04" [] b = 60 -> "3c"
      [] b = 72 -> "48" [] b = 145 -> "91" [] b = 161 -> "a1"

RECURSIVE DumpText(_)
DumpText(m) == IF m = <<>> THEN "" ELSE ByteText(Head(m)) \o DumpText(Tail(m))

\* A three-byte message with status 0x8n, or with status 0x9n and velocity 0.
NoteOffMessage(m) ==
    Len(m) = 3 /\ (m[1] \in 128..143 \/ (m[1] \in 144..159 /\ m[3] = 0))

\* C11: a three-byte message with status 0x8n (any channel, any velocity) or
\* with status 0x9n and velocity 0 is a Note Off of byte[1]: the token is the
\* optional P prefix followed by "O{hh} " and the handler afterwards is the
\* same whichever of these messages carried the note.
C11_NoteOffAliasing ==
    [][NoteOffMessage(message') =>
          LET token == ExpectedPrefix(delta_clock_counter)
                           \o "O" \o ByteText(message'[2]) \o " "
          IN  /\ branch' = "NoteOff"
              /\ result' = Some(token)
              /\ clock_counter' = clock_counter
              /\ delta_clock_counter' = 0
              /\ history' = Append(history, token)]_vars

C11_Witness ==
    /\ message = <<137, 60, 127>>
    /\ result = Some("P02 O3c ")
    /\ history = <<"P01 O3c ", "P02 O3c ">>

\* C12: a message that matches none of the known-format rules returns
\* "M" + two lowercase hex digits per byte + " ", of length 2*len+2, appended
\* to history, with both counters unchanged; and the Raw branch is taken only
\* for such a message.
C12_RawFallback ==
    [][/\ FirstRule(message') = 10 =>
             LET token == "M" \o DumpText(message') \o " "
             IN  /\ branch' = "Raw"
                 /\ result' = Some(token)
                 /\ Len(result'[1]) = 2 * Len(message') + 2
                 /\ history' = Append(history, token)
                 /\ clock_counter' = clock_counter
                 /\ delta_clock_counter' = delta_clock_counter
       /\ branch' = "Raw" => FirstRule(message') = 10]_vars

C12_Witness ==
    /\ message = <<161, 2, 3, 4>>
    /\ result = Some("Ma1020304 ")
    /\ clock_counter = 2 /\ delta_clock_counter = 2

\* C13: clock_counter is in 0..23 and 0 <= delta_clock_counter <=
\* clock_counter in every state, so the prefix of a note token encodes a
\* value in 1..23 (0x01..0x17) in exactly two hex digits.
C13_CountersBounded ==
    /\ clock_counter \in 0..23
    /\ delta_clock_counter \in 0..clock_counter
    /\ (NoteMessage(message) /\ result # None) =>
          \E d \in 0..23 : result = Some(ExpectedPrefix(d) \o NoteText(message))

C13_Witness ==
    /\ message = <<144, 60, 100>>
    /\ result = Some("P17 N3c v64 ")
    /\ clock_counter = 23

\* C14: when the driver refuses to open one input port during start-up, the
\* failure is fatal for that port only: main returns no error, and no
\* connection that was established is closed before the shutdown trigger.
PortRefused == \E p \in PortNames : InputConn(p) \in refused

OnlyPortsRefused == refused \subseteq {InputConn(p) : p \in PortNames}

C14_RefusalFatalForPortOnly ==
    (PortRefused /\ OnlyPortsRefused) =>
        /\ ~failed
        /\ \A c \in established \cap closed :
              main_pc \in {"drop_connections", "drop_sender", "close_clock",
                           "returned", "exited"}

OutputNotFound == output_name # "" /\ output_name \notin out_ports

ClockNotFound == clock_name # "" /\ clock_name \notin in_ports

BeforeReturn ==
    main_pc \in {"probe", "output", "clock", "set_clock_lock", "set_clock",
                 "loop", "listening"}

C16_EstablishedStayOpen ==
    BeforeReturn =>
        \A c \in established :
            /\ c \notin closed
            /\ c[1] = "in" => c[2] \in Range(connections)
            /\ c[1] = "clock" => c \in Range(clock_local) \cup Range(sender.clock_conn)
            /\ c[1] = "out" => c \in Range(sender.conn)

C16_Witness ==
    /\ main_pc = "listening"
    /\ connections = <<"A", "B">>
    /\ sender.clock_conn = Some(ClockConn("C"))
    /\ established = {InputConn("A"), InputConn("B"), ClockConn("C"), OutputConn("O")}
    /\ hooked = 1
    /\ clock_pc = "idle"
    /\ handled_from = {"A", "B"}

\* C17: the clock connection's callback invokes handle_clock exactly once
\* for a delivered message that is exactly [0xF8] while the sender lives and
\* never for another message; handle_clock leaves the sender as it was; no
\* step of the clock callback touches the handler or the output; and the
\* port designated as clock source is never connected as a monitored port,
\* so none of its messages reaches handle_message.
C17_HookCount ==
    /\ clock_arg # <<ClockByte>> => (hooked = 0 /\ clock_pc = "idle")
    /\ clock_pc \in {"upgrade", "lock", "hook"} => hooked = 0
    /\ clock_pc \in {"unlock", "drop_arc", "deadlocked", "panicked"} => hooked = 1
    /\ (clock_pc = "idle" /\ clock_arg = <<ClockByte>> /\ sender_strong > 0)
          => hooked = 1

C17_ClockPortNotMonitored ==
    \A p \in PortNames :
        IsClockPort(p) =>
            /\ p \notin handled_from
            /\ p \notin Range(connections)
            /\ InputConn(p) \notin established

C17_ClockCallbackFrame ==
    (clock_vars' # clock_vars) =>
        /\ sender' = sender
        /\ UNCHANGED <<handler_vars, call_vars, out_buffer, out_stream, handled_from>>

C17_ClockOnlyHooks ==
    /\ [](C17_HookCount /\ C17_ClockPortNotMonitored)
    /\ [][C17_ClockCallbackFrame]_vars

C17_Witness ==
    /\ clock_name = "C"
    /\ sender.clock_conn = Some(ClockConn("C"))
    /\ clock_arg = <<ClockByte>>
    /\ clock_pc = "idle"
    /\ hooked = 1
    /\ handled_from = {"A", "B"}
    /\ history = <<"Start ">>
    /\ clock_counter = 2

\* C18: teardown is safe under every interleaving of shutdown with a clock
\* callback in flight: once the sender has been destroyed the callback's
\* upgrade yields absent and handle_clock is not invoked; the sender, with
\* the clock connection stored in it, is never destroyed by the clock
\* connection's own callback thread; and closing the clock connection
\* neither deadlocks nor panics.
C18_TeardownSafe ==
    /\ (sender_strong = 0 /\ dropped_by # "none") =>
          clock_pc \notin {"lock", "hook", "unlock", "drop_arc"}
    /\ dropped_by # "clock"
    /\ clock_pc \notin {"deadlocked", "panicked"}

\* The token a callback has been returned and has not yet printed.
Unprinted(s) == IF pc[s] = "print" THEN reply[s] ELSE <<>>

\* C19: under every interleaving of the callbacks of several connections,
\* the tokens written to standard output, followed by the token still in
\* the output buffer and the token a callback is about to print, are the
\* shared handler's history, element for element; so what has reached the
\* output is always a prefix of the history, in the same order, and equals
\* it when no callback is in flight.
C19_OutputIsHistory ==
    /\ \A s, t \in Sources : (pc[s] = "print" /\ pc[t] = "print") => s = t
    /\ \E s \in Sources :
          out_stream \o out_buffer \o Unprinted(s) = history
          /\ \A t \in Sources \ {s} : Unprinted(t) = <<>>
    /\ (\A s \in Sources : pc[s] = "idle") => out_stream = history

C19_Witness ==
    /\ out_stream = <<"P01 N3c v64 ">>
    /\ history = <<"P01 N3c v64 ", "Start ">>
    /\ pc["A"] = "lock"
    /\ pc["B"] = "print"

\* No thread holds one of the two locks while it waits for the other.
LockOrderFree ==
    /\ handler_lock \in Sources \cup {"free"}
    /\ sender_lock \in {"main", "clock", "free"}
    /\ \A s \in Sources : pc[s] = "lock" => handler_lock # s
    /\ main_pc = "set_clock_lock" => sender_lock # "main"
    /\ clock_pc = "lock" => sender_lock # "clock"

\* Every delivered callback finishes and main acquires the sender lock.
Progress ==
    /\ \A s \in Sources : (pc[s] # "idle") ~> (pc[s] = "idle")
    /\ (clock_pc # "idle") ~> (clock_pc = "idle")
    /\ (main_pc = "set_clock_lock") ~> (main_pc = "set_clock")

\* A thread that can take a lock again and again does take it.
StrongFairLocks ==
    /\ SF_vars(LockSender)
    /\ SF_vars(ClockLock)
    /\ \A s \in Sources : SF_vars(Lock(s))

\* C20 as stated: the locking is deadlock-free, and under weak fairness of
\* thread scheduling every delivered callback eventually finishes and main's
\* set_clock_input eventually acquires the sender lock.
C20_WeakFairProgress == []LockOrderFree /\ Progress

\* C20: no thread holds one lock while waiting for the other, and if,
\* beyond weak fairness of thread scheduling, lock acquisition is strongly
\* fair, every delivered callback eventually finishes and main's
\* set_clock_input eventually acquires the sender lock.
C20_StrongFairProgress == []LockOrderFree /\ (StrongFairLocks => Progress)

C20_Witness ==
    /\ main_pc = "set_clock"
    /\ sender_lock = "main"
    /\ clock_pc = "lock"
    /\ sender_strong = 2

====
